---- MODULE Spec2Model ----
(***************************************************************************)
(* SM-2 spaced-repetition scheduling of the Flashcards application:        *)
(* Flashcard.process_sm2_review (app/models/flashcard.py) and the          *)
(* StudyService operations built on it (app/services/study_service.py).    *)
(*                                                                         *)
(* Representation.                                                         *)
(*  - ease_factor is a Python float that only ever moves by multiples of   *)
(*    0.02; it is kept here in hundredths (2.5 is 250, the floor 1.3 is    *)
(*    130).                                                                *)
(*  - datetimes are integer clock ticks, DayLen ticks to the day;          *)
(*    timedelta(days=n) is n * DayLen ticks.  NoTime stands for None.      *)
(*  - round() is Python 3's built-in: nearest integer, ties to the even    *)
(*    neighbour, applied to the exact decimal product.                     *)
(*  - the flashcards table is the sequence cards; a card's primary key is  *)
(*    its index.                                                           *)
(***************************************************************************)
EXTENDS Integers, Sequences, FiniteSets, TLC

\* ---------------------------------------------------------------- bounds
NumCards == 2          \* rows the flashcards table may hold
NumDecks == 2          \* deck ids in use
MaxReviews == 2        \* reviews recorded in all, over a table
MaxStreak == 6         \* reviews recorded on the one card followed through a run of recalls
MaxDepth == 5          \* reviews recorded on the one card followed from its creation
MaxNow == 2            \* last clock tick explored
MaxDrift == 1          \* ticks the clock may advance inside one review
MaxLimit == 1          \* largest limit handed to get_due_cards
DayLen == 2            \* clock ticks per day
MaxDays == 2           \* longest forecast asked of get_upcoming_reviews
NumRequests == 2       \* requests served side by side

\* ------------------------------------------------------ program constants
DefaultEase == 250     \* ease_factor=2.5
MinEase == 130         \* max(1.3, ...)
PassQuality == 3       \* quality >= 3 means correct answer
MasteredAbove == 21    \* interval > 21 -> mastered
MaxEase == 300         \* the top of the range the column comment states
SecondInterval == 6    \* second successful review: 6 days

NoTime == -1
NoLimit == -1

CardIds == 1..NumCards
DeckIds == 1..NumDecks
ValidQualities == 0..5
InvalidQualities == {-1, 6, 7}
Limits == {NoLimit} \cup (0..MaxLimit)

VARIABLES
    cards,     \* the flashcards table: primary key -> row
    now,       \* datetime.utcnow()
    last,      \* the call just made: its arguments, the row it found, its return value
    written,   \* the latest call that wrote a row (history)
    inflight,  \* the requests served side by side: what each holds in its session
    streak,    \* per card, the successes recorded since its last lapse, reset or creation (history)
    kept,      \* one earlier review, kept to compare later ones with (history)
    session    \* the browser session of the study views: study_settings, current_session

vars == <<cards, now, last, written, inflight, streak, kept, session>>

\* ------------------------------------------------------------- helpers
Max(a, b) == IF a >= b THEN a ELSE b
Min(a, b) == IF a <= b THEN a ELSE b

\* mutant: ties rounded up
RoundHalfUp(n, d) ==
    LET q == n \div d
        r == n % d
    IN  IF 2 * r >= d THEN q + 1 ELSE q

\* Python 3 round(n / d): nearest integer, ties to even
Round(n, d) ==
    LET q == n \div d
        r == n % d
    IN  IF 2 * r > d \/ (2 * r = d /\ q % 2 = 1) THEN q + 1 ELSE q

\* timedelta(days=n)
Days(n) == n * DayLen

\* mutant: the inner product left without its parentheses
EaseChangeUnparenthesised(quality) == 10 - (5 - quality) * 8 + (5 - quality) * 2

\* ease_change = 0.1 - (5 - quality) * (0.08 + (5 - quality) * 0.02), in hundredths
ease_change(quality) == 10 - (5 - quality) * (8 + (5 - quality) * 2)

\* the legacy difficulty field derived from the ease factor
Difficulty(ease) ==
    IF ease >= 250 THEN Min(5, ease \div 100) ELSE Max(1, ease \div 100)

\* StudyService.create_flashcard: the row as inserted
NewCard(deck, t, tc) ==
    [deck_id |-> deck, created_at |-> tc, difficulty |-> 1,
     times_studied |-> 0, times_correct |-> 0,
     ease_factor |-> DefaultEase, interval |-> 0, repetitions |-> 0,
     next_review_date |-> t, last_reviewed |-> NoTime,
     learning_state |-> "new"]

\* mutant: the repetitions == 1 branch missing
IntervalAfterNoSecondStep(c, quality) ==
    IF quality < PassQuality THEN 0
    ELSE IF c.repetitions = 0 THEN 1
    ELSE Round(c.interval * c.ease_factor, 100)

\* mutant: the interval grown by the ease factor as already updated
IntervalAfterNewEase(c, quality) ==
    IF quality < PassQuality THEN 0
    ELSE IF c.repetitions = 0 THEN 1
    ELSE IF c.repetitions = 1 THEN SecondInterval
    ELSE Round(c.interval * Max(MinEase, c.ease_factor + ease_change(quality)), 100)

\* mutant: a lapse that leaves the interval as it was
IntervalAfterLapseKept(c, quality) ==
    IF quality < PassQuality THEN c.interval
    ELSE IF c.repetitions = 0 THEN 1
    ELSE IF c.repetitions = 1 THEN SecondInterval
    ELSE Round(c.interval * c.ease_factor, 100)

\* mutant: later successes that leave the interval as it was
IntervalAfterNoGrowth(c, quality) ==
    IF quality < PassQuality THEN 0
    ELSE IF c.repetitions = 0 THEN 1
    ELSE IF c.repetitions = 1 THEN SecondInterval
    ELSE c.interval

\* process_sm2_review, field by field.  The interval: 0 on a lapse, 1 and 6
\* days for the first two successes, then the old interval times the ease
\* factor the row still holds
IntervalAfter(c, quality) ==
    IF quality < PassQuality THEN 0
    ELSE IF c.repetitions = 0 THEN 1
    ELSE IF c.repetitions = 1 THEN SecondInterval
    ELSE Round(c.interval * c.ease_factor, 100)

\* mutant: a lapse that keeps the repetitions
RepetitionsAfterKept(c, quality) ==
    IF quality < PassQuality THEN c.repetitions ELSE c.repetitions + 1

\* repetitions: 0 on a lapse, one more on a success
RepetitionsAfter(c, quality) ==
    IF quality < PassQuality THEN 0 ELSE c.repetitions + 1

\* mutant: every success short of mastery leaves the card in review
StateAfterNoLearning(c, quality) ==
    IF quality < PassQuality THEN "learning"
    ELSE IF IntervalAfter(c, quality) > MasteredAbove THEN "mastered"
    ELSE "review"

\* mutant: mastered from 21 days on
StateAfterFrom21(c, quality) ==
    IF quality < PassQuality THEN "learning"
    ELSE IF IntervalAfter(c, quality) >= MasteredAbove THEN "mastered"
    ELSE IF c.repetitions = 0 THEN "learning"
    ELSE "review"

\* learning_state: as the branch taken sets it, mastered above 21 days
StateAfter(c, quality) ==
    IF quality < PassQuality THEN "learning"
    ELSE IF IntervalAfter(c, quality) > MasteredAbove THEN "mastered"
    ELSE IF c.repetitions = 0 THEN "learning"
    ELSE "review"

\* mutant: the floor forgotten
EaseAfterNoFloor(c, quality) == c.ease_factor + ease_change(quality)

\* mutant: the ease factor nudged when the call before was a reset
EaseAfterByHistory(c, quality) ==
    Max(MinEase, c.ease_factor + ease_change(quality)
                    + (IF written.op = "reset" THEN 1 ELSE 0))

\* ease_factor = max(1.3, ease_factor + ease_change)
EaseAfter(c, quality) == Max(MinEase, c.ease_factor + ease_change(quality))

\* mutant: quality 2 counted as correct
IsCorrectFrom2(quality) == quality >= PassQuality - 1

\* is_correct = quality >= 3
is_correct(quality) == quality >= PassQuality

\* Flashcard.process_sm2_review: the row after the review.  t1 is the clock
\* read for last_reviewed, t2 the later read for next_review_date.

process_sm2_review(c, quality, t1, t2) ==
    [c EXCEPT
        !.times_studied = @ + 1,
        !.last_reviewed = t1,
        !.times_correct = IF is_correct(quality) THEN @ + 1 ELSE @,
        !.repetitions = RepetitionsAfter(c, quality),
        !.interval = IntervalAfter(c, quality),
        !.learning_state = StateAfter(c, quality),
        !.ease_factor = EaseAfter(c, quality),
        !.next_review_date = t2 + Days(IntervalAfter(c, quality)),
        !.difficulty = Difficulty(EaseAfter(c, quality))]

\* the dict process_sm2_review returns, as record_sm2_review extends it
Summary(id, quality, c) ==
    [flashcard_id |-> id, quality |-> quality,
     ease_factor |-> c.ease_factor, interval |-> c.interval,
     repetitions |-> c.repetitions, next_review_date |-> c.next_review_date,
     learning_state |-> c.learning_state]

NoCall == [op |-> "none"]

\* no request is being served beside the call made
NoRequests == <<>>

\* no success has been recorded on any card of the table yet
NoStreak(table) == [i \in DOMAIN table |-> 0]

\* a success adds to the count, a lapse starts it again
StreakAfter(count, quality) == IF quality < PassQuality THEN 0 ELSE count + 1

\* the browser session before any study page was visited
NoSettings == [deck_id |-> 0]
NoCurrent == [deck_id |-> 0]
NoSession == [study_settings |-> NoSettings, current_session |-> NoCurrent]

\* what the history keeps of a writing call
Write(op, id, quality, repetitions) ==
    [op |-> op, id |-> id, quality |-> quality, repetitions |-> repetitions]

\* mutant: a medium confidence rated like a low one
GetQualityMediumAsLow(correct, confidence) ==
    IF ~correct THEN 1
    ELSE IF confidence = "low" THEN 3
    ELSE IF confidence = "medium" THEN 3
    ELSE IF confidence = "high" THEN 5
    ELSE 4

\* Flashcard.get_quality_from_boolean: confidence_map.get(confidence, 4)
get_quality_from_boolean(correct, confidence) ==
    IF ~correct THEN 1
    ELSE IF confidence = "low" THEN 3
    ELSE IF confidence = "medium" THEN 4
    ELSE IF confidence = "high" THEN 5
    ELSE 4

\* ------------------------------------------------------------ due query
\* mutant: review cards keyed by their due date alone
GetPriorityDateOnly(c) ==
    IF c.times_studied > 0 /\ c.repetitions = 0 THEN <<0, c.next_review_date, 0>>
    ELSE IF c.learning_state = "new" THEN <<1, c.created_at, 0>>
    ELSE <<2, c.next_review_date, 0>>

\* get_priority: the sort key, 2-tuples padded to the length of the 3-tuple
\* (tuples with different first components never compare further)
get_priority(c) ==
    IF c.times_studied > 0 /\ c.repetitions = 0 THEN <<0, c.next_review_date, 0>>
    ELSE IF c.learning_state = "new" THEN <<1, c.created_at, 0>>
    ELSE <<2, c.next_review_date, c.ease_factor>>

\* Python's tuple order
KeyLess(a, b) ==
    \/ a[1] < b[1]
    \/ a[1] = b[1] /\ a[2] < b[2]
    \/ a[1] = b[1] /\ a[2] = b[2] /\ a[3] < b[3]

\* mutant: due only strictly before now
DueFilterStrict(table, deck, t) ==
    {i \in DOMAIN table : table[i].deck_id = deck /\ table[i].next_review_date < t}

\* the rows the filter of get_due_cards selects
DueFilter(table, deck, t) ==
    {i \in DOMAIN table : table[i].deck_id = deck /\ table[i].next_review_date <= t}

\* list.sort(key=get_priority): stable, on rows fetched in primary-key order
SortByPriority(table, ids) ==
    LET Before(j, i) ==
            \/ KeyLess(get_priority(table[j]), get_priority(table[i]))
            \/ get_priority(table[j]) = get_priority(table[i]) /\ j < i
        Pos(i) == 1 + Cardinality({j \in ids : Before(j, i)})
    IN  [k \in 1..Cardinality(ids) |-> CHOOSE i \in ids : Pos(i) = k]

\* due_cards[:limit] when limit is truthy
Truncate(list, limit) ==
    IF limit = NoLimit \/ limit = 0 THEN list
    ELSE SubSeq(list, 1, Min(limit, Len(list)))

due_cards(table, deck, t, limit) ==
    Truncate(SortByPriority(table, DueFilter(table, deck, t)), limit)

\* total of times_correct over the table
RECURSIVE Corrects(_)
Corrects(table) ==
    IF table = <<>> THEN 0
    ELSE table[Len(table)].times_correct + Corrects(SubSeq(table, 1, Len(table) - 1))

\* total of times_studied over the table
RECURSIVE Studied(_)
Studied(table) ==
    IF table = <<>> THEN 0
    ELSE table[Len(table)].times_studied + Studied(SubSeq(table, 1, Len(table) - 1))

\* ------------------------------------------------- forecast, statistics
\* StudyService.get_deck_cards: the rows of one deck
get_deck_cards(table, deck) == {i \in DOMAIN table : table[i].deck_id = deck}

\* sum of f over the set S
RECURSIVE Sum(_, _)
Sum(f, S) ==
    IF S = {} THEN 0
    ELSE LET x == CHOOSE y \in S : TRUE IN f[x] + Sum(f, S \ {x})

\* target_date.replace(hour=0, minute=0, second=0, microsecond=0)
start_of_day(t) == (t \div DayLen) * DayLen

\* start_of_day.date(), as a day number
date(t) == t \div DayLen

\* get_upcoming_reviews: reads[k] is the clock as iteration k of the loop
\* reads it (day_offset = k - 1)
forecast(table, deck, reads) ==
    [k \in 1..Len(reads) |->
        LET start == start_of_day(reads[k] + Days(k - 1))
            end_of_day == start + Days(1)
        IN  [date |-> date(start),
             count |-> Cardinality({i \in get_deck_cards(table, deck) :
                            /\ start <= table[i].next_review_date
                            /\ table[i].next_review_date < end_of_day})]]

\* mutant: due only once the due date is in the past
IsDueOnlyAfter(c, t) ==
    IF c.learning_state = "new" THEN TRUE ELSE t > c.next_review_date

\* Flashcard.is_due_for_review, the clock reading t
is_due_for_review(c, t) ==
    IF c.learning_state = "new" THEN TRUE ELSE t >= c.next_review_date

\* due_today of get_study_statistics
due_today(table, deck, t) ==
    Cardinality({i \in get_deck_cards(table, deck) : is_due_for_review(table[i], t)})

\* DeckService.get_due_cards_count
get_due_cards_count(table, deck, t) ==
    Cardinality({i \in DOMAIN table :
                    table[i].deck_id = deck /\ table[i].next_review_date <= t})

\* Flashcard.get_accuracy: round(times_correct / times_studied * 100, 1), in
\* tenths of a percent
get_accuracy(c) ==
    IF c.times_studied = 0 THEN 0 ELSE Round(c.times_correct * 1000, c.times_studied)

\* the dict get_study_statistics returns; percentages in tenths, the
\* average ease factor in hundredths
study_statistics(table, deck, t) ==
    LET ids == get_deck_cards(table, deck)
        studied == {i \in ids : table[i].times_studied > 0}
        InState(state) == Cardinality({i \in ids : table[i].learning_state = state})
        total_correct == Sum([i \in ids |-> table[i].times_correct], ids)
        total_studies == Sum([i \in ids |-> table[i].times_studied], ids)
        ease_sum == Sum([i \in ids |-> table[i].ease_factor], studied)
        retained == Cardinality({i \in studied : table[i].ease_factor >= DefaultEase})
    IN  IF ids = {}
        THEN [total_cards |-> 0, new_cards |-> 0, learning_cards |-> 0,
              review_cards |-> 0, mastered_cards |-> 0, due_today |-> 0,
              studied_cards |-> 0, unstudied_cards |-> 0, avg_accuracy |-> 0,
              avg_ease_factor |-> 0, total_study_sessions |-> 0,
              retention_rate |-> 0, cards_needing_review |-> 0]
        ELSE [total_cards |-> Cardinality(ids),
              new_cards |-> InState("new"),
              learning_cards |-> InState("learning"),
              review_cards |-> InState("review"),
              mastered_cards |-> InState("mastered"),
              due_today |-> due_today(table, deck, t),
              studied_cards |-> Cardinality(studied),
              unstudied_cards |-> Cardinality(ids) - Cardinality(studied),
              avg_accuracy |-> IF total_studies > 0
                               THEN Round(total_correct * 1000, total_studies)
                               ELSE 0,
              avg_ease_factor |-> IF studied # {}
                                  THEN Round(ease_sum, Cardinality(studied))
                                  ELSE DefaultEase,
              total_study_sessions |-> total_studies,
              retention_rate |-> IF studied # {}
                                 THEN Round(retained * 1000, Cardinality(studied))
                                 ELSE 0,
              cards_needing_review |-> due_today(table, deck, t)]

\* get_card_health_score.  The score is kept in 340ths of a point, the unit
\* in which ease_score = (ease - 1.3) / 1.7 * 50 and accuracy_score =
\* accuracy * 0.5 are both whole: 50 is 17000, the bonus 10 is 3400, the
\* ceiling 100 is 34000.
card_health_score(c) ==
    IF c.times_studied = 0 THEN 17000
    ELSE LET ease_score == (c.ease_factor - MinEase) * 100
             accuracy_score == get_accuracy(c) * 17
             state_bonus == IF c.learning_state = "mastered" THEN 3400 ELSE 0
         IN  Min(34000, Max(0, ease_score + accuracy_score + state_bonus))

\* ------------------------------------------------------- study session
\* list.sort(key=..., reverse=...): stable either way, on the rows of the
\* deck fetched in primary-key order
SortByKey(ids, key, reverse) ==
    LET Ahead(j, i) ==
            \/ IF reverse THEN key[j] > key[i] ELSE key[j] < key[i]
            \/ key[j] = key[i] /\ j < i
        Pos(i) == 1 + Cardinality({j \in ids : Ahead(j, i)})
    IN  [k \in 1..Cardinality(ids) |-> CHOOSE i \in ids : Pos(i) = k]

\* random.shuffle: any order of the rows
Orders(ids) ==
    {list \in [1..Cardinality(ids) -> ids] : \A i \in ids : \E k \in DOMAIN list : list[k] = i}

SpacedModes == {"sm2", "spaced", "due"}

\* StudyService.get_study_cards: the lists of card ids it may return (one
\* list, but for the random mode)
get_study_cards(table, deck, t, study_mode, limit) ==
    LET ids == get_deck_cards(table, deck)
        ByDifficulty == [i \in ids |-> table[i].difficulty]
        ByAccuracy == [i \in ids |-> get_accuracy(table[i])]
        ByStudied == [i \in ids |-> table[i].times_studied]
        ByCreation == [i \in ids |-> table[i].created_at]
        ByKeyOfRow == [i \in ids |-> i]
    IN  IF study_mode \in SpacedModes THEN {due_cards(table, deck, t, limit)}
        ELSE IF ids = {} THEN {<<>>}
        ELSE IF study_mode = "random" THEN {Truncate(list, limit) : list \in Orders(ids)}
        ELSE IF study_mode = "difficulty_asc"
            THEN {Truncate(SortByKey(ids, ByDifficulty, FALSE), limit)}
        ELSE IF study_mode = "difficulty_desc"
            THEN {Truncate(SortByKey(ids, ByDifficulty, TRUE), limit)}
        ELSE IF study_mode = "accuracy_asc"
            THEN {Truncate(SortByKey(ids, ByAccuracy, FALSE), limit)}
        ELSE IF study_mode = "accuracy_desc"
            THEN {Truncate(SortByKey(ids, ByAccuracy, TRUE), limit)}
        ELSE IF study_mode = "least_studied"
            THEN {Truncate(SortByKey(ids, ByStudied, FALSE), limit)}
        ELSE IF study_mode = "newest"
            THEN {Truncate(SortByKey(ids, ByCreation, TRUE), limit)}
        ELSE IF study_mode = "oldest"
            THEN {Truncate(SortByKey(ids, ByCreation, FALSE), limit)}
        ELSE {Truncate(SortByKey(ids, ByKeyOfRow, FALSE), limit)}

\* views/study.py start: the settings the submitted form leaves in the
\* session; the form's 0 ("All Cards") becomes None
FormSettings(deck, study_mode, card_limit) ==
    [deck_id |-> deck, study_mode |-> study_mode,
     card_limit |-> IF card_limit > 0 THEN card_limit ELSE NoLimit]

\* views/study.py study_session: the settings used when the session holds
\* none for the deck
DefaultSettings(deck) ==
    [deck_id |-> deck, study_mode |-> "sm2", card_limit |-> NoLimit]

\* views/study.py study_session: the progress record of a session begun
NewSession(deck, list) ==
    [deck_id |-> deck, card_ids |-> list, current_index |-> 0,
     correct_count |-> 0, total_studied |-> 0, quality_ratings |-> <<>>]

\* the request carried no quality
NoQuality == -1

\* views/study.py answer: the quality recorded, the one given or the one
\* derived from correct and confidence
QualityValue(correct, confidence, quality) ==
    IF quality # NoQuality THEN quality
    ELSE get_quality_from_boolean(correct, confidence)

\* mutant: the cursor left where it was
SessionAfterAnswerNoAdvance(current, correct, quality_value) ==
    [current EXCEPT
        !.total_studied = @ + 1,
        !.correct_count =
            IF correct \/ (quality_value # 0 /\ quality_value >= PassQuality)
            THEN @ + 1 ELSE @,
        !.quality_ratings = Append(@, quality_value)]

\* mutant: only the correct flag counted
SessionAfterAnswerFlagOnly(current, correct, quality_value) ==
    [current EXCEPT
        !.total_studied = @ + 1,
        !.correct_count = IF correct THEN @ + 1 ELSE @,
        !.quality_ratings = Append(@, quality_value),
        !.current_index = @ + 1]

\* views/study.py answer: the progress record after an accepted answer;
\* `quality_value and quality_value >= 3` is falsy for 0
SessionAfterAnswer(current, correct, quality_value) ==
    [current EXCEPT
        !.total_studied = @ + 1,
        !.correct_count =
            IF correct \/ (quality_value # 0 /\ quality_value >= PassQuality)
            THEN @ + 1 ELSE @,
        !.quality_ratings = Append(@, quality_value),
        !.current_index = @ + 1]

RECURSIVE SumOf(_)
SumOf(list) == IF list = <<>> THEN 0 ELSE Head(list) + SumOf(Tail(list))

\* views/study.py complete: the results shown; accuracy and avg_quality are
\* rounded to one decimal and held in tenths
Results(current) ==
    [total_studied |-> current.total_studied,
     correct_count |-> current.correct_count,
     incorrect_count |-> current.total_studied - current.correct_count,
     accuracy |-> IF current.total_studied > 0
                  THEN Round(current.correct_count * 1000, current.total_studied)
                  ELSE 0,
     avg_quality |-> IF current.quality_ratings # <<>>
                     THEN Round(SumOf(current.quality_ratings) * 10,
                                Len(current.quality_ratings))
                     ELSE 0,
     quality_ratings |-> current.quality_ratings]

\* ------------------------------------------------------------- actions
\* StudyService.create_flashcard
create_flashcard(deck) ==
    /\ Len(cards) < NumCards
    /\ cards' = Append(cards, NewCard(deck, now, now))
    /\ last' = [op |-> "create", id |-> Len(cards) + 1]
    /\ written' = Write("create", Len(cards) + 1, 0, 0)
    /\ streak' = Append(streak, 0)
    /\ UNCHANGED <<now, inflight, kept, session>>

\* StudyService.record_sm2_review on an existing card: the clock is read
\* once for last_reviewed (t1 = now) and again for next_review_date (t2).
\* budget caps the reviews explored.
record_sm2_review(id, quality, budget) ==
    /\ id \in DOMAIN cards
    /\ Studied(cards) < budget
    /\ \E d \in 0..MaxDrift :
        /\ now + d <= MaxNow
        /\ cards' = [cards EXCEPT ![id] = process_sm2_review(@, quality, now, now + d)]
        /\ now' = now + d
        /\ last' = [op |-> "review", id |-> id, quality |-> quality,
                    before |-> cards[id], t1 |-> now, t2 |-> now + d,
                    returned |-> Summary(id, quality, cards'[id]),
                    prev |-> written]
    /\ written' = Write("review", id, quality, cards[id].repetitions)
    /\ streak' = [streak EXCEPT ![id] = StreakAfter(@, quality)]
    /\ UNCHANGED <<inflight, kept, session>>

\* StudyService.record_sm2_review for an id no row carries: get_by_id finds
\* nothing and the call returns None before anything is computed or stored
NoSummary == [flashcard_id |-> 0]

record_sm2_review_not_found(id, quality) ==
    /\ id \notin DOMAIN cards
    /\ last' = [op |-> "review_not_found", id |-> id, quality |-> quality,
                t1 |-> now, returned |-> NoSummary]
    /\ UNCHANGED <<cards, now, written, inflight, streak, kept, session>>

\* one run of record_sm2_review set aside as it ended: its inputs, the row
\* it left and the record it returned
Keep ==
    /\ last.op = "review"
    /\ kept.op = "none"
    /\ kept' = [op |-> "review", id |-> last.id, quality |-> last.quality,
                before |-> last.before, t1 |-> last.t1, t2 |-> last.t2,
                after |-> cards[last.id], returned |-> last.returned,
                prev |-> last.prev]
    /\ UNCHANGED <<cards, now, last, written, inflight, streak, session>>

\* StudyService.record_study_result on an existing card: the review of
\* record_sm2_review with the quality derived from correct and confidence
record_study_result(id, correct, confidence, budget) ==
    /\ id \in DOMAIN cards
    /\ Studied(cards) < budget
    /\ \E d \in 0..MaxDrift :
        /\ now + d <= MaxNow
        /\ cards' = [cards EXCEPT ![id] =
                        process_sm2_review(@, get_quality_from_boolean(correct, confidence),
                                           now, now + d)]
        /\ now' = now + d
        /\ last' = [op |-> "study", id |-> id, correct |-> correct,
                    confidence |-> confidence, before |-> cards[id],
                    t1 |-> now, t2 |-> now + d]
    /\ written' = Write("review", id, get_quality_from_boolean(correct, confidence),
                        cards[id].repetitions)
    /\ streak' = [streak EXCEPT ![id] =
                        StreakAfter(@, get_quality_from_boolean(correct, confidence))]
    /\ UNCHANGED <<inflight, kept, session>>

\* mutant: a reset that leaves the learning state as it was
ResetCardKeepingState(c, t) ==
    [c EXCEPT !.ease_factor = DefaultEase, !.interval = 0, !.repetitions = 0,
              !.next_review_date = t]

\* mutant: a reset that leaves the count of repetitions as it was
ResetCardKeepingRepetitions(c, t) ==
    [c EXCEPT !.ease_factor = DefaultEase, !.interval = 0,
              !.next_review_date = t, !.learning_state = "new"]

\* StudyService.reset_card_progress
ResetCard(c, t) ==
    [c EXCEPT !.ease_factor = DefaultEase, !.interval = 0, !.repetitions = 0,
              !.next_review_date = t, !.learning_state = "new"]

reset_card_progress(id) ==
    /\ id \in DOMAIN cards
    /\ cards' = [cards EXCEPT ![id] = ResetCard(@, now)]
    /\ last' = [op |-> "reset", id |-> id, before |-> cards[id]]
    /\ written' = Write("reset", id, 0, cards[id].repetitions)
    /\ streak' = [streak EXCEPT ![id] = 0]
    /\ UNCHANGED <<now, inflight, kept, session>>

\* StudyService.get_due_cards
get_due_cards(deck, limit) ==
    /\ last' = [op |-> "due", deck |-> deck, limit |-> limit, at |-> now,
                returned |-> due_cards(cards, deck, now, limit)]
    /\ UNCHANGED <<cards, now, written, inflight, streak, kept, session>>

\* the clock as the iterations of one loop read it: the first read is now,
\* each later read at most MaxDrift ticks after the one before
ClockReads(n) ==
    {reads \in [1..n -> now..MaxNow] :
        /\ n > 0 => reads[1] = now
        /\ \A k \in 2..n : reads[k] - reads[k - 1] \in 0..MaxDrift}

\* StudyService.get_upcoming_reviews
get_upcoming_reviews(deck, days) ==
    /\ \E reads \in ClockReads(days) :
        /\ last' = [op |-> "forecast", deck |-> deck, days |-> days, at |-> now,
                    reads |-> reads, returned |-> forecast(cards, deck, reads)]
        /\ now' = IF days = 0 THEN now ELSE reads[days]
    /\ UNCHANGED <<cards, written, inflight, streak, kept, session>>

\* mutant: a statistics call that also marks the deck's new cards as learning
GetStudyStatisticsMarking(deck) ==
    /\ last' = [op |-> "statistics", deck |-> deck, at |-> now,
                returned |-> study_statistics(cards, deck, now)]
    /\ cards' = [i \in DOMAIN cards |->
                    IF cards[i].deck_id = deck /\ cards[i].learning_state = "new"
                    THEN [cards[i] EXCEPT !.learning_state = "learning"]
                    ELSE cards[i]]
    /\ UNCHANGED <<now, written, inflight, streak, kept, session>>

\* StudyService.get_study_statistics
get_study_statistics(deck) ==
    /\ last' = [op |-> "statistics", deck |-> deck, at |-> now,
                returned |-> study_statistics(cards, deck, now)]
    /\ UNCHANGED <<cards, now, written, inflight, streak, kept, session>>

\* StudyService.get_card_health_score
get_card_health_score(id) ==
    /\ id \in DOMAIN cards
    /\ last' = [op |-> "health", id |-> id,
                returned |-> card_health_score(cards[id])]
    /\ UNCHANGED <<cards, now, written, inflight, streak, kept, session>>

\* record_sm2_review as the steps of one request among others, each request
\* with a session of its own.  The request's Flashcard object is the row
\* as get_by_id loaded it.
Requests == 1..NumRequests
Idle == [pc |-> "idle"]

\* flashcard = cls.get_by_id(flashcard_id)
get_by_id(r, id, quality) ==
    /\ inflight[r].pc = "idle"
    /\ id \in DOMAIN cards
    /\ inflight' = [inflight EXCEPT ![r] =
                        [pc |-> "loaded", id |-> id, quality |-> quality,
                         loaded |-> cards[id], row |-> cards[id]]]
    /\ last' = [op |-> "get_by_id", request |-> r]
    /\ UNCHANGED <<cards, now, written, streak, kept, session>>

\* result = flashcard.process_sm2_review(quality), on the request's object
process_loaded(r) ==
    /\ inflight[r].pc = "loaded"
    /\ \E d \in 0..MaxDrift :
        /\ now + d <= MaxNow
        /\ inflight' = [inflight EXCEPT ![r] =
                            [@ EXCEPT !.pc = "processed",
                                      !.row = process_sm2_review(@, inflight[r].quality,
                                                                 now, now + d)]]
        /\ now' = now + d
    /\ last' = [op |-> "process", request |-> r]
    /\ UNCHANGED <<cards, written, streak, kept, session>>

\* the UPDATE the commit of save() issues: the columns whose attribute has
\* changed since the load are set, the others are left as stored
Flush(stored, loaded, row) ==
    [f \in DOMAIN stored |-> IF row[f] # loaded[f] THEN row[f] ELSE stored[f]]

\* flashcard.save(): db.session.add(self); db.session.commit()
save(r) ==
    /\ inflight[r].pc = "processed"
    /\ cards' = [cards EXCEPT ![inflight[r].id] =
                    Flush(@, inflight[r].loaded, inflight[r].row)]
    /\ inflight' = [inflight EXCEPT ![r].pc = "done"]
    /\ last' = [op |-> "save", request |-> r]
    /\ written' = Write("review", inflight[r].id, inflight[r].quality,
                        inflight[r].loaded.repetitions)
    /\ streak' = [streak EXCEPT ![inflight[r].id] = StreakAfter(@, inflight[r].quality)]
    /\ UNCHANGED <<now, kept, session>>

\* views/study.py start, the form submitted: the settings are stored and the
\* browser is sent to the session page
start(deck, study_mode, card_limit) ==
    /\ IF get_deck_cards(cards, deck) = {}
       THEN /\ session' = session
            /\ last' = [op |-> "start", deck |-> deck, response |-> "deck_view"]
       ELSE /\ session' = [session EXCEPT
                              !.study_settings = FormSettings(deck, study_mode, card_limit)]
            /\ last' = [op |-> "start", deck |-> deck, response |-> "session_page"]
    /\ UNCHANGED <<cards, now, written, inflight, streak, kept>>

\* views/study.py study_session: the settings are defaulted, the cards
\* queried, the progress record begun if the session holds none for the
\* deck, and the card at the cursor shown
study_session(deck) ==
    LET settings == IF session.study_settings.deck_id # deck
                    THEN DefaultSettings(deck)
                    ELSE session.study_settings
    IN
    /\ \E list \in get_study_cards(cards, deck, now, settings.study_mode,
                                   settings.card_limit) :
        IF list = <<>>
        THEN /\ session' = [session EXCEPT !.study_settings = settings]
             /\ last' = [op |-> "study_session", deck |-> deck,
                         response |-> "deck_view"]
        ELSE LET current == IF session.current_session.deck_id # deck
                            THEN NewSession(deck, list)
                            ELSE session.current_session
             IN  /\ session' = [study_settings |-> settings,
                                current_session |-> current]
                 /\ last' = [op |-> "study_session", deck |-> deck,
                             response |->
                                IF current.current_index >= Len(current.card_ids)
                                THEN "complete"
                                ELSE IF current.card_ids[current.current_index + 1]
                                            \notin DOMAIN cards
                                THEN "deck_view"
                                ELSE "card"]
    /\ UNCHANGED <<cards, now, written, inflight, streak, kept>>

\* views/study.py answer: refused without a session for the deck, failing
\* on the subscript when the cursor is past the last card, else the review
\* is recorded on the card at the cursor and the progress record updated.
\* The request carries one of payloads (correct, confidence, quality), read
\* once the session is found valid; json tells an AJAX request from a
\* submitted form; budget caps the reviews explored.
answer(deck, payloads, budget) ==
    LET current == session.current_session IN
    IF current.deck_id = 0
    THEN /\ last' = [op |-> "answer", deck |-> deck, response |-> "start_expired"]
         /\ UNCHANGED <<cards, now, written, inflight, streak, kept, session>>
    ELSE IF current.deck_id # deck
    THEN /\ last' = [op |-> "answer", deck |-> deck, response |-> "start_invalid"]
         /\ UNCHANGED <<cards, now, written, inflight, streak, kept, session>>
    ELSE IF current.current_index >= Len(current.card_ids)
    THEN /\ last' = [op |-> "answer", deck |-> deck, response |-> "index_error"]
         /\ UNCHANGED <<cards, now, written, inflight, streak, kept, session>>
    ELSE IF current.card_ids[current.current_index + 1] \notin DOMAIN cards
    THEN /\ last' = [op |-> "answer", deck |-> deck, response |-> "not_found"]
         /\ UNCHANGED <<cards, now, written, inflight, streak, kept, session>>
    ELSE \E json \in BOOLEAN, payload \in payloads :
         LET id == current.card_ids[current.current_index + 1]
             quality_value == QualityValue(payload.correct, payload.confidence,
                                           payload.quality)
             after == SessionAfterAnswer(current, payload.correct, quality_value)
         IN  /\ Studied(cards) < budget
             /\ \E d \in 0..MaxDrift :
                 /\ now + d <= MaxNow
                 /\ cards' = [cards EXCEPT ![id] =
                                process_sm2_review(@, quality_value, now, now + d)]
                 /\ now' = now + d
             /\ written' = Write("review", id, quality_value, cards[id].repetitions)
             /\ streak' = [streak EXCEPT ![id] = StreakAfter(@, quality_value)]
             /\ session' = [session EXCEPT !.current_session = after]
             /\ last' = [op |-> "answer", deck |-> deck,
                         response |->
                            IF ~json THEN "session_page"
                            ELSE IF after.current_index >= Len(after.card_ids)
                            THEN "next_complete"
                            ELSE "next_session"]
             /\ UNCHANGED <<inflight, kept>>

\* views/study.py complete: without a session for the deck the browser is
\* sent to the deck, else the results are shown and the session cleared
\* (the statistics and the forecast it also shows are read-only lookups)
complete(deck) ==
    LET current == session.current_session IN
    /\ IF current.deck_id = 0 \/ current.deck_id # deck
       THEN /\ session' = session
            /\ last' = [op |-> "complete", deck |-> deck, response |-> "deck_view"]
       ELSE /\ session' = NoSession
            /\ last' = [op |-> "complete", deck |-> deck, response |-> "results",
                        results |-> Results(current)]
    /\ UNCHANGED <<cards, now, written, inflight, streak, kept>>

\* the clock advances
Tick ==
    /\ now < MaxNow
    /\ now' = now + 1
    /\ last' = NoCall
    /\ UNCHANGED <<cards, written, inflight, streak, kept, session>>

\* ------------------------------------------------------- specifications
\* the application started on an empty flashcards table
Init ==
    /\ cards = <<>>
    /\ now = 0
    /\ last = NoCall
    /\ written = Write("none", 0, 0, 0)
    /\ inflight = NoRequests
    /\ streak = NoStreak(cards)
    /\ kept = NoCall
    /\ session = NoSession

Next ==
    \/ \E deck \in DeckIds : create_flashcard(deck)
    \/ \E id \in CardIds, quality \in ValidQualities :
          record_sm2_review(id, quality, MaxReviews)
    \/ \E id \in CardIds : reset_card_progress(id)
    \/ \E deck \in DeckIds, limit \in Limits : get_due_cards(deck, limit)
    \/ Tick

Spec == Init /\ [][Next]_vars

\* one card found in the table in any state a row can hold (cards imported
\* by add_sm2_fields.py, or left behind by earlier reviews)
States == {"new", "learning", "review", "mastered"}
EaseSamples == {130, 150, 250, 260}
IntervalSamples == {0, 1, 6, 8, 17}
RepetitionSamples == {0, 1, 2, 5}

AnyCard ==
    {c \in [deck_id : {1}, created_at : {0}, difficulty : {1},
            times_studied : {0, 1}, times_correct : {0, 1},
            ease_factor : EaseSamples, interval : IntervalSamples,
            repetitions : RepetitionSamples,
            next_review_date : {0, Days(1)}, last_reviewed : {NoTime, 0},
            learning_state : States] :
        /\ c.times_correct <= c.times_studied
        /\ (c.last_reviewed = NoTime) = (c.times_studied = 0)}

InitAny ==
    /\ cards \in {<<c>> : c \in AnyCard}
    /\ now = 0
    /\ last = NoCall
    /\ written = Write("none", 0, 0, 0)
    /\ inflight = NoRequests
    /\ streak = NoStreak(cards)
    /\ kept = NoCall
    /\ session = NoSession

NextCard ==
    \/ \E quality \in ValidQualities :
          record_sm2_review(1, quality, MaxReviews)
    \/ reset_card_progress(1)
    \/ Tick

SpecCard == InitAny /\ [][NextCard]_vars

\* one newly created card, followed through its reviews and resets
InitNew ==
    /\ cards = <<NewCard(1, 0, 0)>>
    /\ now = 0
    /\ last = [op |-> "create", id |-> 1]
    /\ written = Write("create", 1, 0, 0)
    /\ inflight = NoRequests
    /\ streak = NoStreak(cards)
    /\ kept = NoCall
    /\ session = NoSession

NextNew ==
    \/ \E quality \in ValidQualities :
          record_sm2_review(1, quality, MaxDepth)
    \/ reset_card_progress(1)
    \/ Tick

SpecNew == InitNew /\ [][NextNew]_vars

\* two cards in one state, never reviewed: each is reviewed and reset in any
\* order, and one of the runs is set aside
TwinShapes ==
    {<<0, 0, "new">>, <<1, 1, "learning">>, <<2, 6, "review">>, <<5, 17, "review">>}

\* a lapse, a success that lowers the ease factor, one that raises it
TwinQualities == {1, 3, 5}

TwinCards ==
    {c \in AnyCard :
        /\ c.times_studied = 0
        /\ c.next_review_date = 0
        /\ c.ease_factor = DefaultEase
        /\ <<c.repetitions, c.interval, c.learning_state>> \in TwinShapes}

InitTwin ==
    /\ cards \in {<<c, c>> : c \in TwinCards}
    /\ now = 0
    /\ last = NoCall
    /\ written = Write("none", 0, 0, 0)
    /\ inflight = NoRequests
    /\ streak = NoStreak(cards)
    /\ kept = NoCall
    /\ session = NoSession

NextTwin ==
    \/ \E id \in CardIds, quality \in TwinQualities :
          record_sm2_review(id, quality, MaxReviews)
    \/ \E id \in CardIds : reset_card_progress(id)
    \/ Keep

SpecTwin == InitTwin /\ [][NextTwin]_vars

LapseOrSuccess == {1, 5}

\* one newly created card through a longer run of reviews, each a lapse
\* or a perfect recall
NextStreak ==
    \/ \E quality \in LapseOrSuccess :
          record_sm2_review(1, quality, MaxStreak)
    \/ Tick

SpecStreak == InitNew /\ [][NextStreak]_vars

\* one stored card beside ids that no row carries: reviews are requested
\* for either
InitMissing == InitNew

NextMissing ==
    \/ \E quality \in ValidQualities :
          record_sm2_review(1, quality, MaxReviews)
    \/ \E id \in CardIds, quality \in ValidQualities :
          record_sm2_review_not_found(id, quality)
    \/ Tick

SpecMissing == InitMissing /\ [][NextMissing]_vars

\* the due query over any table of cards as short histories leave them:
\* created at t and untouched, or created at 0 and reviewed once at t
DueSamples ==
    {NewCard(deck, t, t) : deck \in DeckIds, t \in 0..1}
    \cup {process_sm2_review(NewCard(deck, 0, 0), quality, t, t) :
              deck \in DeckIds, t \in 0..1, quality \in {1, 3, 5}}

RECURSIVE Tables(_)
Tables(n) ==
    IF n = 0 THEN {<<>>}
    ELSE Tables(n - 1) \cup
         {Append(table, c) : table \in {x \in Tables(n - 1) : Len(x) = n - 1},
                             c \in DueSamples}

\* primary keys are handed out in the order of creation
InOrderOfCreation(table) ==
    \A i, j \in DOMAIN table : i < j => table[i].created_at <= table[j].created_at

InitDue ==
    /\ cards \in {table \in Tables(NumCards) : InOrderOfCreation(table)}
    /\ now = 1
    /\ last = NoCall
    /\ written = Write("none", 0, 0, 0)
    /\ inflight = NoRequests
    /\ streak = NoStreak(cards)
    /\ kept = NoCall
    /\ session = NoSession

NextDue ==
    \/ \E deck \in DeckIds, limit \in Limits : get_due_cards(deck, limit)
    \/ Tick

SpecDue == InitDue /\ [][NextDue]_vars

\* the newly created card again, with the quality any integer a request can
\* carry (views/study.py answer passes int(quality) on unchecked)
NextAnyQuality ==
    \/ \E quality \in ValidQualities \cup InvalidQualities :
          record_sm2_review(1, quality, MaxDepth)
    \/ reset_card_progress(1)
    \/ Tick

SpecAnyQuality == InitNew /\ [][NextAnyQuality]_vars

\* one card found in any state, studied through the boolean interface
\* ("unsure" stands for any string that is not a key of confidence_map)
Confidences == {"low", "medium", "high", "unsure"}

NextStudy ==
    \/ \E correct \in BOOLEAN, confidence \in Confidences :
          record_study_result(1, correct, confidence, MaxReviews)
    \/ reset_card_progress(1)
    \/ Tick

SpecStudy == InitAny /\ [][NextStudy]_vars

\* the read-only operations over any table of cards created at 0 and since
\* untouched, failed once or passed once
QuerySamples ==
    {NewCard(deck, 0, 0) : deck \in DeckIds}
    \cup {process_sm2_review(NewCard(deck, 0, 0), quality, 0, 0) :
              deck \in DeckIds, quality \in {1, 5}}

RECURSIVE TablesOf(_, _)
TablesOf(samples, n) ==
    IF n = 0 THEN {<<>>}
    ELSE TablesOf(samples, n - 1) \cup
         {Append(table, c) :
             table \in {x \in TablesOf(samples, n - 1) : Len(x) = n - 1},
             c \in samples}

InitQuery ==
    /\ cards \in TablesOf(QuerySamples, NumCards)
    /\ now = 0
    /\ last = NoCall
    /\ written = Write("none", 0, 0, 0)
    /\ inflight = NoRequests
    /\ streak = NoStreak(cards)
    /\ kept = NoCall
    /\ session = NoSession

\* the tables of the read-only operations, with cards reset between the due queries
NextReset ==
    \/ \E id \in CardIds : reset_card_progress(id)
    \/ \E deck \in DeckIds : get_due_cards(deck, NoLimit)
    \/ Tick

SpecReset == InitQuery /\ [][NextReset]_vars

\* a browser studying decks of newly created cards: the form of the start
\* page offers the legacy modes, the session page defaults to sm2
FormModes == {"random"}
FormLimits == {0}

\* an answer carries a direct quality, or a correct flag with a confidence
Answers ==
    [correct : {FALSE}, confidence : {"medium"}, quality : {0, 3}]
    \cup [correct : BOOLEAN, confidence : {"low"}, quality : {NoQuality}]

\* decks are numbered in the order their first cards were created
DecksInOrder(table) ==
    \A i \in DOMAIN table :
        table[i].deck_id <= 1 + Cardinality({table[j].deck_id : j \in 1..(i - 1)})

InitSession ==
    /\ cards \in {table \in TablesOf({NewCard(deck, 0, 0) : deck \in DeckIds}, NumCards) :
                        DecksInOrder(table)}
    /\ now = MaxNow
    /\ last = NoCall
    /\ written = Write("none", 0, 0, 0)
    /\ inflight = NoRequests
    /\ streak = NoStreak(cards)
    /\ kept = NoCall
    /\ session = NoSession

NextSession ==
    \/ \E deck \in DeckIds, study_mode \in FormModes, card_limit \in FormLimits :
          start(deck, study_mode, card_limit)
    \/ \E deck \in DeckIds : study_session(deck)
    \/ \E deck \in DeckIds : answer(deck, Answers, MaxReviews)
    \/ \E deck \in DeckIds : complete(deck)

SpecSession == InitSession /\ [][NextSession]_vars

Forecasts == 0..MaxDays

NextQuery ==
    \/ \E deck \in DeckIds, limit \in Limits : get_due_cards(deck, limit)
    \/ \E deck \in DeckIds, days \in Forecasts : get_upcoming_reviews(deck, days)
    \/ \E deck \in DeckIds : get_study_statistics(deck)
    \/ \E id \in CardIds : get_card_health_score(id)
    \/ Tick

SpecQuery == InitQuery /\ [][NextQuery]_vars

\* the table as creating, reviewing (a lapse of quality 1 or a success of
\* quality 5) and resetting cards leave it while time advances
NextDeck ==
    \/ \E deck \in DeckIds : create_flashcard(deck)
    \/ \E id \in CardIds, quality \in LapseOrSuccess :
          record_sm2_review(id, quality, MaxReviews)
    \/ \E id \in CardIds : reset_card_progress(id)
    \/ Tick

SpecDeck == Init /\ [][NextDeck]_vars

\* one newly created card, reviewed by requests that are served side by
\* side, one review each
InitRace ==
    /\ cards = <<NewCard(1, 0, 0)>>
    /\ now = 0
    /\ last = [op |-> "create", id |-> 1]
    /\ written = Write("create", 1, 0, 0)
    /\ inflight = [r \in Requests |-> Idle]
    /\ streak = NoStreak(cards)
    /\ kept = NoCall
    /\ session = NoSession

NextRace ==
    \/ \E r \in Requests, quality \in ValidQualities : get_by_id(r, 1, quality)
    \/ \E r \in Requests : process_loaded(r)
    \/ \E r \in Requests : save(r)
    \/ Tick

SpecRace == InitRace /\ [][NextRace]_vars

\* ================================================================ claims
\* the row a review found and the row it left
Reviewed == last.op = "review"
Before == last.before
After == cards[last.id]
Lapse == Reviewed /\ last.quality \in {0, 1, 2}
Success == Reviewed /\ last.quality \in {3, 4, 5}

\* C1: from any card with easeFactor >= 1.3, after every review (quality
\* 0..5) and every reset, easeFactor >= 1.3.
C1_EaseFloor == \A i \in DOMAIN cards : cards[i].ease_factor >= 130

\* a review whose ease change would have gone below the floor
C1_Witness ==
    /\ Reviewed
    /\ last.quality = 0
    /\ Before.ease_factor = 150
    /\ After.ease_factor = 130

\* C2: a review with quality 0, 1 or 2 of a card in any state leaves
\* repetitions = 0, interval = 0 and learningState = Learning.
C2_LapseResets ==
    Lapse => /\ After.repetitions = 0
             /\ After.interval = 0
             /\ After.learning_state = "learning"

\* a lapse of a mastered card with progress to lose
C2_Witness ==
    /\ Lapse
    /\ Before.learning_state = "mastered"
    /\ Before.repetitions > 0
    /\ Before.interval > 0

\* C3: from repetitions = 0 and any ease factor, the first success leaves
\* interval 1, repetitions 1, Learning, and a second success right after it
\* leaves interval 6, repetitions 2, Review.
SecondOfTwo ==
    /\ Success
    /\ last.prev.op = "review"
    /\ last.prev.id = last.id
    /\ last.prev.quality \in {3, 4, 5}
    /\ last.prev.repetitions = 0

C3_FirstTwoSuccesses ==
    /\ (Success /\ Before.repetitions = 0) =>
            /\ After.interval = 1
            /\ After.repetitions = 1
            /\ After.learning_state = "learning"
    /\ SecondOfTwo =>
            /\ Before.interval = 1
            /\ After.interval = 6
            /\ After.repetitions = 2
            /\ After.learning_state = "review"

\* the second of two successes in a row, on a card that was not at the default ease
C3_Witness ==
    /\ SecondOfTwo
    /\ Before.ease_factor # 250
    /\ After.interval = 6

\* C4: a success leaves Mastered exactly when its resulting interval is
\* above 21; a lapse of a Mastered card leaves Learning.
C4_MasteryThreshold ==
    /\ Success => ((After.learning_state = "mastered") <=> (After.interval > 21))
    /\ (Lapse /\ Before.learning_state = "mastered") => After.learning_state = "learning"

\* a success landing exactly on 21 days, which is not yet mastered
C4_Witness ==
    /\ Success
    /\ After.interval = 21
    /\ After.learning_state = "review"

\* C5: every review moves easeFactor to max(1.3, old + d(quality)) with
\* d = -0.80, -0.54, -0.32, -0.14, 0, +0.10 for quality 0..5.
EaseDelta == <<-80, -54, -32, -14, 0, 10>>

C5_EaseUpdate ==
    (Reviewed /\ last.quality \in 0..5) =>
        LET moved == Before.ease_factor + EaseDelta[last.quality + 1]
        IN  After.ease_factor = IF moved < 130 THEN 130 ELSE moved

\* a lapse that lowered the ease factor without reaching the floor
C5_Witness ==
    /\ Lapse
    /\ last.quality = 2
    /\ Before.ease_factor = 250
    /\ After.ease_factor = 218

\* C6: a success from repetitions >= 2 sets interval to the integer nearest
\* to old interval x old easeFactor (the ease before this review's update)
\* and adds exactly 1 to repetitions; interval 6, ease 2.6, quality 5 gives 16.
C6_IntervalGrowth ==
    (Success /\ Before.repetitions >= 2) =>
        /\ 2 * (100 * After.interval - Before.interval * Before.ease_factor) <= 100
        /\ 2 * (Before.interval * Before.ease_factor - 100 * After.interval) <= 100
        /\ After.repetitions = Before.repetitions + 1
        /\ (Before.interval = 6 /\ Before.ease_factor = 260 /\ last.quality = 5)
                => After.interval = 16

\* the spec's example: interval 6, ease 2.6, quality 5
C6_Witness ==
    /\ Success
    /\ Before.repetitions >= 2
    /\ Before.interval = 6
    /\ Before.ease_factor = 260
    /\ last.quality = 5
    /\ After.interval = 16
    /\ After.ease_factor = 270

\* C7: every review adds 1 to timesStudied and adds 1 to timesCorrect iff
\* quality >= 3; timesCorrect <= timesStudied in every state reached from
\* newly created cards.
C7_LifetimeCounters ==
    /\ Reviewed =>
        /\ After.times_studied = Before.times_studied + 1
        /\ After.times_correct =
                Before.times_correct + (IF last.quality >= 3 THEN 1 ELSE 0)
    /\ \A i \in DOMAIN cards : cards[i].times_correct <= cards[i].times_studied

\* a card with one success and one lapse behind it
C7_Witness ==
    /\ Lapse
    /\ Before.times_studied = 1
    /\ Before.times_correct = 1
    /\ After.times_studied = 2
    /\ After.times_correct = 1

\* C8: after every review nextReviewDue is the review time plus the new
\* interval in days and lastReviewedAt is the review time; after a lapse
\* nextReviewDue is the review time itself.
C8_NextDueDate ==
    Reviewed =>
        /\ After.last_reviewed = last.t1
        /\ After.next_review_date = After.last_reviewed + After.interval * DayLen
        /\ Lapse => After.next_review_date = After.last_reviewed

\* C9: a review with a quality outside 0..5 is rejected and leaves the card
\* as it was.
C9_InvalidQualityRejected ==
    (Reviewed /\ last.quality \notin 0..5) => After = Before

\* C10: without a limit, dueItems returns each card of the deck with
\* nextReviewDue <= now exactly once, no card that is not yet due, no card of
\* another deck, and the empty list on an empty collection.
Unlimited == last.op = "due" /\ last.limit = NoLimit

C10_DueSelection ==
    Unlimited =>
        LET r == last.returned IN
        /\ \A i \in DOMAIN cards :
              (cards[i].deck_id = last.deck /\ cards[i].next_review_date <= last.at)
                  => Cardinality({k \in DOMAIN r : r[k] = i}) = 1
        /\ \A k \in DOMAIN r :
              /\ r[k] \in DOMAIN cards
              /\ cards[r[k]].deck_id = last.deck
              /\ cards[r[k]].next_review_date <= last.at
        /\ cards = <<>> => r = <<>>

\* a deck with one card due exactly now and one card not yet due
C10_Witness ==
    /\ Unlimited
    /\ Len(last.returned) = 1
    /\ cards[last.returned[1]].next_review_date = last.at
    /\ \E j \in DOMAIN cards :
          /\ cards[j].deck_id = last.deck
          /\ cards[j].next_review_date > last.at

\* the kinds of card get_due_cards tells apart
LapsedItem(c) == c.times_studied > 0 /\ c.repetitions = 0
NewItem(c) == ~LapsedItem(c) /\ c.learning_state = "new"
OtherItem(c) == ~LapsedItem(c) /\ c.learning_state # "new"

C12_LimitTruncation ==
    (last.op = "due" /\ last.limit >= 0) =>
        LET unlimited == due_cards(cards, last.deck, last.at, NoLimit)
        IN  last.returned = SubSeq(unlimited, 1, Min(last.limit, Len(unlimited)))

\* total of the counts of a forecast
RECURSIVE Counted(_)
Counted(buckets) ==
    IF buckets = <<>> THEN 0
    ELSE buckets[Len(buckets)].count + Counted(SubSeq(buckets, 1, Len(buckets) - 1))

\* C13: forecast(states, now, days) returns exactly `days` buckets dated
\* today, today+1, ..., today+days-1 in that order; each count is the
\* number of the deck's cards with nextReviewDue inside that day, so the
\* counts add up to the cards due inside the whole window, no card is
\* counted twice, and an empty collection gives all-zero buckets.
C13_ForecastBuckets ==
    last.op = "forecast" =>
        LET r == last.returned
            today == date(last.at)
            DueOn(day) == {i \in get_deck_cards(cards, last.deck) :
                              date(cards[i].next_review_date) = day}
        IN  /\ Len(r) = last.days
            /\ \A k \in DOMAIN r :
                  /\ r[k].date = today + k - 1
                  /\ r[k].count = Cardinality(DueOn(today + k - 1))
            /\ Counted(r) =
                  Cardinality({i \in get_deck_cards(cards, last.deck) :
                      /\ Days(today) <= cards[i].next_review_date
                      /\ cards[i].next_review_date < Days(today + last.days)})
            /\ \A i \in DOMAIN cards :
                  Cardinality({k \in DOMAIN r :
                      date(cards[i].next_review_date) = r[k].date}) <= 1
            /\ cards = <<>> => \A k \in DOMAIN r : r[k].count = 0

\* the operations that only read
QueryOps == {"due", "forecast", "statistics", "health"}

\* C14: get_due_cards, get_upcoming_reviews, get_study_statistics and
\* get_card_health_score leave every field of every card unchanged, for
\* every table and every time.
C14_QueriesReadOnly == [][(last'.op \in QueryOps) => (cards' = cards)]_vars

\* statistics computed over a deck that holds cards, studied and new
C14_Witness ==
    /\ last.op = "statistics"
    /\ last.returned.total_cards = 2
    /\ last.returned.new_cards = 1
    /\ last.returned.studied_cards = 1

\* C15: reset of a card in any state leaves the construction defaults of a
\* newly created card: easeFactor 2.5, interval 0, repetitions 0,
\* learningState New, nextReviewDue = now.
C15_ResetDefaults ==
    last.op = "reset" =>
        LET fresh == NewCard(After.deck_id, now, now) IN
        /\ After.ease_factor = 250
        /\ After.interval = 0
        /\ After.repetitions = 0
        /\ After.learning_state = "new"
        /\ After.next_review_date = now
        /\ After.ease_factor = fresh.ease_factor
        /\ After.interval = fresh.interval
        /\ After.repetitions = fresh.repetitions
        /\ After.learning_state = fresh.learning_state
        /\ After.next_review_date = fresh.next_review_date

\* a mastered card with a lowered ease factor, reset after the clock moved on
C15_Witness ==
    /\ last.op = "reset"
    /\ Before.learning_state = "mastered"
    /\ Before.ease_factor < 250
    /\ Before.interval > 0
    /\ Before.repetitions > 0
    /\ Before.next_review_date # now

\* the edges a successful review may take
SuccessEdges ==
    {<<"new", "learning">>, <<"learning", "learning">>, <<"learning", "review">>,
     <<"review", "review">>, <<"review", "mastered">>, <<"mastered", "mastered">>}

\* C16: along every sequence of reviews of a newly created card,
\* learningState moves only along New->Learning, Learning->Learning,
\* Learning->Review, Review->Review, Review->Mastered, Mastered->Mastered,
\* and any->Learning on a lapse; no review produces New, none takes New or
\* Learning straight to Mastered, none takes New straight to Review.
C16_StateMachine ==
    /\ Lapse => After.learning_state = "learning"
    /\ Success => <<Before.learning_state, After.learning_state>> \in SuccessEdges
    /\ Reviewed => After.learning_state # "new"
    /\ (Reviewed /\ Before.learning_state \in {"new", "learning"})
            => After.learning_state # "mastered"
    /\ (Reviewed /\ Before.learning_state = "new") => After.learning_state # "review"

\* a mastered card that stays mastered on a further success
C16_Witness ==
    /\ Success
    /\ Before.learning_state = "mastered"
    /\ After.learning_state = "mastered"

\* C17: get_quality_from_boolean maps incorrect, whatever the confidence,
\* to quality 1, correct+low to 3, correct+medium to 4, correct+high to 5,
\* and record_study_result leaves the card exactly as record_sm2_review
\* with that quality would.
C17_QualityDerivation ==
    /\ \A confidence \in Confidences : get_quality_from_boolean(FALSE, confidence) = 1
    /\ get_quality_from_boolean(TRUE, "low") = 3
    /\ get_quality_from_boolean(TRUE, "medium") = 4
    /\ get_quality_from_boolean(TRUE, "high") = 5
    /\ last.op = "study" =>
        LET derived ==
                IF ~last.correct THEN 1
                ELSE IF last.confidence = "low" THEN 3
                ELSE IF last.confidence = "medium" THEN 4
                ELSE IF last.confidence = "high" THEN 5
                ELSE get_quality_from_boolean(TRUE, last.confidence)
        IN  After = process_sm2_review(Before, derived, last.t1, last.t2)

\* a correct answer of medium confidence on a card in its third repetition
C17_Witness ==
    /\ last.op = "study"
    /\ last.correct
    /\ last.confidence = "medium"
    /\ Before.repetitions = 2
    /\ After.repetitions = 3
    /\ After.ease_factor = Before.ease_factor

\* the rows that reviewing card c once for each request of S, one review
\* after the other in any order, from time t on, can leave
RECURSIVE OneAfterTheOther(_, _, _)
OneAfterTheOther(c, S, t) ==
    IF S = {} THEN {c}
    ELSE UNION {OneAfterTheOther(
                    process_sm2_review(c, inflight[r].quality, t1, t2), S \ {r}, t2) :
                    r \in S, t1 \in t..MaxNow, t2 \in t..MaxNow}

\* C18: a recorded review reads the card, applies the review and writes it
\* back as one atomic unit: however two concurrent record_sm2_review calls
\* on one card interleave, the stored card ends as if the reviews had been
\* applied one after the other in some order; timesStudied has grown by one
\* for each, no update is lost.
C18_AtomicReviews ==
    (\A r \in Requests : inflight[r].pc = "done") =>
        /\ cards[1].times_studied = NumRequests
        /\ cards[1] \in OneAfterTheOther(NewCard(1, 0, 0), Requests, 0)

\* a success that multiplies the interval, the product falling exactly
\* halfway between two integers
Tie ==
    /\ Success
    /\ Before.repetitions >= 2
    /\ (Before.interval * Before.ease_factor) % 100 = 50

C20_DueCounts ==
    \A deck \in DeckIds :
        /\ study_statistics(cards, deck, now).due_today
                = Len(due_cards(cards, deck, now, NoLimit))
        /\ study_statistics(cards, deck, now).due_today
                = get_due_cards_count(cards, deck, now)

\* a card that was reviewed and then reset: New, due since before now, and
\* counted once by all three
C20_Witness ==
    \E i \in DOMAIN cards :
        /\ cards[i].learning_state = "new"
        /\ cards[i].times_studied > 0
        /\ cards[i].next_review_date < now
        /\ study_statistics(cards, cards[i].deck_id, now).due_today = 1
        /\ Len(due_cards(cards, cards[i].deck_id, now, NoLimit)) = 1
        /\ get_due_cards_count(cards, cards[i].deck_id, now) = 1

\* C21: in every state reachable from a newly created card by reviews and
\* resets, repetitions equals the number of successful reviews (quality >= 3)
\* recorded since the most recent lapse, reset or creation.
C21_RepetitionsMeaning ==
    \A i \in DOMAIN cards : cards[i].repetitions = streak[i]

\* two successes in a row on a card that lapsed earlier and was not reset since
C21_Witness ==
    /\ Success
    /\ streak[last.id] = 2
    /\ cards[last.id].repetitions = 2
    /\ cards[last.id].times_studied > cards[last.id].times_correct

\* C22: a review requested for a card with no prior state is not an error;
\* its outcome equals creating the default state (easeFactor 2.5, interval 0,
\* repetitions 0, New) and then applying the requested review to it.
C22_MissingStateConstructs ==
    (last.op = "review_not_found") =>
        /\ last.id \in DOMAIN cards
        /\ \E deck \in DeckIds, tc \in 0..MaxNow :
              cards[last.id] = process_sm2_review(NewCard(deck, tc, tc),
                                                  last.quality, last.t1, last.t1)
        /\ last.returned.flashcard_id = last.id
        /\ last.returned = Summary(last.id, last.quality, cards[last.id])

\* what the review computed, without the id of the card it was asked for
Result(summary) == [f \in DOMAIN summary \ {"flashcard_id"} |-> summary[f]]

\* the run set aside and the last run started from equal inputs
SameInputs ==
    /\ Reviewed
    /\ kept.op = "review"
    /\ kept.before = last.before
    /\ kept.quality = last.quality
    /\ kept.t1 = last.t1
    /\ kept.t2 = last.t2

C24_EaseRange ==
    \A i \in DOMAIN cards :
        cards[i].ease_factor >= MinEase /\ cards[i].ease_factor <= MaxEase

\* the place of card i in a list of ids, 0 when it is not in it
Place(list, i) ==
    IF \E k \in DOMAIN list : list[k] = i
    THEN CHOOSE k \in DOMAIN list : list[k] = i
    ELSE 0

\* C25: after reset_card_progress on a card in any reachable state, reviewed
\* before or not, the due query treats it as a new card: get_due_cards
\* places it in the New group (priority 1, ordered by creation time), not
\* in the failed group.
C25_ResetAppearsNew ==
    (last.op = "reset") =>
        LET c == cards[last.id]
            list == due_cards(cards, c.deck_id, now, NoLimit)
        IN  /\ get_priority(c) = <<1, c.created_at, 0>>
            /\ Place(list, last.id) > 0
            /\ \A j \in DOMAIN cards :
                    (Place(list, j) > 0 /\ cards[j].times_studied = 0
                        /\ cards[j].learning_state = "new"
                        /\ cards[j].created_at < c.created_at)
                    => Place(list, j) < Place(list, last.id)

\* C26: in every state reachable from a newly created card by reviews and
\* resets, learningState agrees with repetitions and interval: New implies
\* repetitions = 0 and interval = 0; Learning implies repetitions <= 1 and
\* interval = repetitions; Review implies repetitions >= 2 and
\* 6 <= interval <= 21; Mastered implies repetitions >= 3 and interval > 21.
C26_BucketConsistency ==
    \A i \in DOMAIN cards :
        LET c == cards[i] IN
        /\ (c.learning_state = "new") => (c.repetitions = 0 /\ c.interval = 0)
        /\ (c.learning_state = "learning")
                => (c.repetitions <= 1 /\ c.interval = c.repetitions)
        /\ (c.learning_state = "review")
                => (c.repetitions >= 2 /\ c.interval >= SecondInterval
                        /\ c.interval <= MasteredAbove)
        /\ (c.learning_state = "mastered")
                => (c.repetitions >= 3 /\ c.interval > MasteredAbove)

\* a review that left the card mastered, after one that had left it in review
\* with a grown interval
C26_Witness ==
    /\ Success
    /\ Before.learning_state = "review"
    /\ Before.interval > SecondInterval
    /\ After.learning_state = "mastered"
    /\ After.repetitions >= 3

\* C27: in every reachable state, a successful review never decreases the
\* interval, and for repetitions >= 2 it strictly increases it; a Mastered
\* card stays Mastered after every successful review and leaves Mastered
\* only through a lapse or a reset.
C27_IntervalsGrow ==
    /\ Success =>
          /\ After.interval >= Before.interval
          /\ (Before.repetitions >= 2) => (After.interval > Before.interval)
          /\ (Before.learning_state = "mastered")
                => (After.learning_state = "mastered")
    /\ (last.op \in {"review", "reset"}
            /\ Before.learning_state = "mastered"
            /\ After.learning_state # "mastered")
          => (Lapse \/ last.op = "reset")

\* a success on a mastered card, which grew its interval and left it mastered
C27_Witness ==
    /\ Success
    /\ Before.learning_state = "mastered"
    /\ After.learning_state = "mastered"
    /\ After.interval > Before.interval

\* the progress record of the study session, when the browser holds one
Cursor == session.current_session
HasSession == Cursor.deck_id # 0
Accepted == {"session_page", "next_session", "next_complete"}

\* the counters of the progress record in step with the cursor
CursorInStep ==
    HasSession =>
        /\ 0 <= Cursor.current_index
        /\ Cursor.current_index <= Len(Cursor.card_ids)
        /\ Cursor.total_studied = Cursor.current_index
        /\ Cursor.current_index = Len(Cursor.quality_ratings)
        /\ Cursor.correct_count <= Cursor.total_studied

\* a request leaves the cards of the session as they were listed, and an
\* accepted answer records one review, on the card at the cursor
OneReviewAtCursor ==
    /\ (HasSession /\ HasSession' /\ Cursor'.deck_id = Cursor.deck_id)
          => (Cursor'.card_ids = Cursor.card_ids)
    /\ (last'.op = "answer" /\ last'.response \in Accepted) =>
          LET id == Cursor.card_ids[Cursor.current_index + 1] IN
          /\ Cursor'.current_index = Cursor.current_index + 1
          /\ cards'[id].times_studied = cards[id].times_studied + 1
          /\ Studied(cards') = Studied(cards) + 1
          /\ \A j \in DOMAIN cards : (j # id) => (cards'[j] = cards[j])
    /\ (last'.op \in {"start", "study_session", "complete"}
            \/ (last'.op = "answer" /\ last'.response \notin Accepted))
          => (cards' = cards)

\* C28: in every state of a study session reachable through study_session
\* and answer requests, 0 <= current_index <= len(card_ids), card_ids is
\* unchanged since the session was created, total_studied = current_index =
\* len(quality_ratings), correct_count <= total_studied, and each accepted
\* answer records exactly one review, on the card at the cursor position
\* before the answer.
C28_CursorInvariant == []CursorInStep /\ [][OneReviewAtCursor]_vars

\* the first answer of a session of two cards listed last card first
C28_Witness ==
    /\ HasSession
    /\ last.op = "answer"
    /\ last.response \in Accepted
    /\ Cursor.card_ids = <<2, 1>>
    /\ Cursor.current_index = 1
    /\ cards[2].times_studied = 1
    /\ cards[1].times_studied = 0

\* the ratings of the session that count as correct
Passed(ratings) == {k \in DOMAIN ratings : ratings[k] >= PassQuality}

\* an accepted answer adds as much to correct_count as its review adds to
\* the times_correct of the cards
CountsWithReview ==
    (last'.op = "answer" /\ last'.response \in Accepted) =>
        (Cursor'.correct_count - Cursor.correct_count
            = Corrects(cards') - Corrects(cards))

FinishedSpaced(deck) ==
    /\ Cursor.deck_id = deck
    /\ Cursor.current_index = Len(Cursor.card_ids)
    /\ \/ session.study_settings.deck_id # deck
       \/ session.study_settings.study_mode \in SpacedModes

\* C30: in the default spaced-repetition mode, once every card of a study
\* session has been answered (current_index = len(card_ids)), the next
\* request to the session page leads to the completion page, which reports
\* the results and clears current_session and study_settings, whatever
\* qualities were given, also when every answer was a success so that no
\* card of the deck is due any more.
C30_SessionCompletion ==
    [][/\ (last'.op = "study_session" /\ FinishedSpaced(last'.deck))
            => (last'.response = "complete")
       /\ (last'.op = "complete" /\ last'.response = "results")
            => (session' = NoSession /\ last'.results = Results(Cursor))]_vars

====
